---- MODULE Spec2Model ----
(***************************************************************************)
(* PDF form filler and flattener (simple_pdf_filler.py) with the Tk front  *)
(* end that drives it (pdf_form_gui.py), and the merger (merge_pdf.py).     *)
(*                                                                         *)
(* A document is a sequence of pages; a page carries its annotation list.  *)
(* A widget annotation is modelled together with the field dictionary that *)
(* _get_field_from_annot resolves for it.  Rectangles are in whole points; *)
(* everything the flattener draws is kept in twentieths of a point, so     *)
(* that h * 0.6 and h * 0.45 are exact integers.                           *)
(***************************************************************************)
EXTENDS Integers, Sequences, FiniteSets, TLC

VARIABLES file, reader, data, phase, fillIdx, filled, widgets, loaded, overlay, writer, nflat,
          pdf_list, disk, held, outcome

vars == <<file, reader, data, phase, fillIdx, filled, widgets, loaded, overlay, writer, nflat,
          pdf_list, disk, held, outcome>>

Max(a, b) == IF a >= b THEN a ELSE b

Min(a, b) == IF a <= b THEN a ELSE b

RECURSIVE Pow2(_)
Pow2(n) == IF n = 0 THEN 1 ELSE 2 * Pow2(n - 1)

(* x & (1 << bit) != 0 *)
BitSet(x, bit) == (x \div Pow2(bit)) % 2 = 1

(***************************************************************************)
(* Python values of the submitted mapping (FieldValue and what a caller    *)
(* may pass in its place).  One record shape for all of them:              *)
(*   t = "str" | "bool" | "int" | "list"                                   *)
(* A list item is a string (h = TRUE, s the string) or an unhashable       *)
(* object such as a nested list (h = FALSE, s its str() form).             *)
(***************************************************************************)
PyS(s) == [t |-> "str", b |-> FALSE, s |-> s, n |-> 0, items |-> <<>>]

PyB(b) == [t |-> "bool", b |-> b, s |-> "", n |-> 0, items |-> <<>>]

PyI(n) == [t |-> "int", b |-> FALSE, s |-> "", n |-> n, items |-> <<>>]

PyL(items) == [t |-> "list", b |-> FALSE, s |-> "", n |-> 0, items |-> items]

Item(s) == [h |-> TRUE, s |-> s]

Unhashable(s) == [h |-> FALSE, s |-> s]

(* isinstance(value, (list, set, tuple)) *)
IsCollection(v) == v.t = "list"

(* isinstance(value, bool) *)
IsBool(v) == v.t = "bool"

(* bool(value) *)
PyBool(v) ==
    CASE v.t = "bool" -> v.b
      [] v.t = "str"  -> v.s # ""
      [] v.t = "int"  -> v.n # 0
      [] OTHER        -> v.items # <<>>

Digits == <<"0", "1", "2", "3", "4", "5", "6", "7", "8", "9">>

(* str(i) of a non-negative integer *)
RECURSIVE IntStr(_)
IntStr(i) == IF i < 10 THEN Digits[i + 1] ELSE IntStr(i \div 10) \o Digits[(i % 10) + 1]

(* repr of one list item: a string in quotes, anything else as it prints *)
ItemRepr(it) == IF it.h THEN "'" \o it.s \o "'" ELSE it.s

RECURSIVE JoinRepr(_)
JoinRepr(items) ==
    IF items = <<>> THEN ""
    ELSE IF Len(items) = 1 THEN ItemRepr(items[1])
    ELSE ItemRepr(items[1]) \o ", " \o JoinRepr(Tail(items))

(* str(value) *)
PyStr(v) ==
    CASE v.t = "str"  -> v.s
      [] v.t = "bool" -> IF v.b THEN "True" ELSE "False"
      [] v.t = "int"  -> IntStr(v.n)
      [] OTHER        -> "[" \o JoinRepr(v.items) \o "]"

(***************************************************************************)
(* The /V entry of a field: absent, a text string, or an array of them.    *)
(***************************************************************************)
NoV == [k |-> "none", s |-> "", a |-> <<>>]

StrV(s) == [k |-> "str", s |-> s, a |-> <<>>]

ArrV(a) == [k |-> "arr", s |-> "", a |-> a]

(***************************************************************************)
(* Field classification                                                    *)
(***************************************************************************)
PushbuttonBit == 16

RadioBit == 15

MultiSelectBit == 21

_is_widget(annot) == annot.Subtype = "/Widget"

_ff(field) == field.Ff

_is_pushbutton(field) == BitSet(_ff(field), PushbuttonBit)

_is_radio(field) == BitSet(_ff(field), RadioBit)

_is_text(field) == field.FT = "/Tx"

_is_checkbox(field) == field.FT = "/Btn" /\ ~_is_pushbutton(field)

_is_choice(field) == field.FT = "/Ch"

_choice_is_multiselect(field) == BitSet(_ff(field), MultiSelectBit)

(* The bodies of the name objects that occur as appearance states. *)
NameBodies == {"Yes", "On", "Off"}

(* on_name[1:] of a name object, which always starts with "/" *)
StripFirst(nm) == CHOOSE t \in NameBodies : "/" \o t = nm

RECURSIVE FirstNotOff(_)
FirstNotOff(keys) ==
    IF keys = <<>> THEN "/Yes"
    ELSE IF keys[1] # "/Off" THEN keys[1]
    ELSE FirstNotOff(Tail(keys))

(* APN is the key list of /AP /N, empty when /AP or /N is missing *)
_checkbox_on_name(annot) == FirstNotOff(annot.APN)

_set_checkbox_state(annot, checked) ==
    [annot EXCEPT !.AS = IF checked THEN _checkbox_on_name(annot) ELSE "/Off"]

_set_text_value(field, value) == [field EXCEPT !.V = StrV(value)]

(***************************************************************************)
(* Choice options: Opt is the list of <<export, display>> pairs that       *)
(* _choice_options returns (a bare string option s is the pair <<s, s>>).  *)
(***************************************************************************)
_choice_options(field) == field.Opt

RECURSIVE FirstDisplay(_, _)
FirstDisplay(opts, export) ==
    IF opts = <<>> THEN export
    ELSE IF opts[1][1] = export THEN opts[1][2]
    ELSE FirstDisplay(Tail(opts), export)

_choice_export_to_display(field, export) == FirstDisplay(_choice_options(field), export)

(* {disp: ex for ex, disp in options}.get(d, d): the last pair with the label wins *)
RECURSIVE DictGet(_, _, _)
DictGet(opts, d, dflt) ==
    IF opts = <<>> THEN dflt
    ELSE IF opts[Len(opts)][2] = d THEN opts[Len(opts)][1]
    ELSE DictGet(SubSeq(opts, 1, Len(opts) - 1), d, dflt)

(* The label looked up before the exports *)
LabelFirstDisplayToExport(field, s) == DictGet(_choice_options(field), s, s)

_choice_display_to_export(field, s) ==
    LET options == _choice_options(field)
        exports == {options[i][1] : i \in DOMAIN options}
    IN  IF s \in exports THEN s ELSE DictGet(options, s, s)

_set_choice_value(field, value) ==
    IF IsCollection(value)
    THEN [field EXCEPT !.V =
            ArrV([i \in DOMAIN value.items |->
                    _choice_display_to_export(field, value.items[i].s)])]
    ELSE [field EXCEPT !.V = StrV(_choice_display_to_export(field, PyStr(value)))]

(***************************************************************************)
(* fill_pdf_fields                                                         *)
(***************************************************************************)
(* f"{name_str}__{idx}" *)
IndexKey(name_str, idx) == name_str \o "__" \o IntStr(idx)

(* set(map(str, value)) *)
StrSet(v) == {v.items[i].s : i \in DOMAIN v.items}

(* set(value) raises TypeError when an item is unhashable *)
SetRaises(v) == \E i \in DOMAIN v.items : ~v.items[i].h

(* on_name in set(value) *)
InRawSet(nm, v) == \E i \in DOMAIN v.items : v.items[i].h /\ v.items[i].s = nm

(* The plain key consulted before the indexed one *)
CheckboxDecisionPlainFirst(annot, name_str, idx, d) ==
    IF name_str # "" /\ name_str \in DOMAIN d /\ IsBool(d[name_str])
    THEN IF PyBool(d[name_str]) THEN "on" ELSE "off"
    ELSE IF name_str # "" /\ IndexKey(name_str, idx) \in DOMAIN d
    THEN IF PyBool(d[IndexKey(name_str, idx)]) THEN "on" ELSE "off"
    ELSE "none"

(* Lines 161-168: "on", "off", "none" (checked stays None) or "raise". *)
CheckboxDecision(annot, name_str, idx, d) ==
    IF name_str # "" /\ IndexKey(name_str, idx) \in DOMAIN d
    THEN IF PyBool(d[IndexKey(name_str, idx)]) THEN "on" ELSE "off"
    ELSE IF name_str # "" /\ name_str \in DOMAIN d /\ IsCollection(d[name_str])
    THEN LET on_name == _checkbox_on_name(annot)
         IN  IF StripFirst(on_name) \in StrSet(d[name_str]) THEN "on"
             ELSE IF SetRaises(d[name_str]) THEN "raise"
             ELSE IF InRawSet(on_name, d[name_str]) THEN "on" ELSE "off"
    ELSE IF name_str # "" /\ name_str \in DOMAIN d /\ IsBool(d[name_str])
    THEN IF PyBool(d[name_str]) THEN "on" ELSE "off"
    ELSE "none"

(* name_counts.get(key, 0) *)
CountGet(nc, key) == IF key \in DOMAIN nc THEN nc[key] ELSE 0

CountPut(nc, key, idx) == [k \in DOMAIN nc \cup {key} |-> IF k = key THEN idx ELSE nc[k]]

(* Line 158: the widgets that enter the checkbox branch of fill_pdf_fields *)
FillTakesCheckbox(field) == _is_checkbox(field) /\ ~_is_radio(field)

(***************************************************************************)
(* One iteration of the inner loop (lines 143-177) on annotation a of page *)
(* p.  st = [pages, nc, raised, idx]: the pages so far, name_counts,       *)
(* whether an exception has left the function, and for every widget that   *)
(* was counted the occurrence index it was given.                          *)
(***************************************************************************)
FillAnnot(st, p, a, d) ==
    LET annot    == st.pages[p].Annots[a]
        name_str == annot.T
        put(x)   == [st.pages EXCEPT ![p].Annots[a] = x]
    IN  IF st.raised \/ ~_is_widget(annot) THEN st
        ELSE IF _is_text(annot)
        THEN IF name_str # "" /\ name_str \in DOMAIN d
             THEN [st EXCEPT !.pages = put(_set_text_value(annot, PyStr(d[name_str])))]
             ELSE st
        ELSE IF FillTakesCheckbox(annot)
        THEN LET idx == CountGet(st.nc, name_str) + 1
                 dec == CheckboxDecision(annot, name_str, idx, d)
                 st1 == [st EXCEPT !.nc = CountPut(st.nc, name_str, idx),
                                   !.idx = (<<p, a>> :> idx) @@ st.idx]
             IN  CASE dec = "raise" -> [st1 EXCEPT !.raised = TRUE]
                   [] dec = "none"  -> st1
                   [] OTHER -> [st1 EXCEPT !.pages = put(_set_checkbox_state(annot, dec = "on"))]
        ELSE IF _is_choice(annot)
        THEN IF name_str # "" /\ name_str \in DOMAIN d
             THEN [st EXCEPT !.pages = put(_set_choice_value(annot, d[name_str]))]
             ELSE st
        ELSE st

(* page.get("/Annots") or [] *)
AnnotsOf(page) == IF page.hasAnnots THEN page.Annots ELSE <<>>

RECURSIVE FillLoop(_, _, _, _)
FillLoop(st, p, a, d) ==
    IF p > Len(st.pages) THEN st
    ELSE IF a > Len(AnnotsOf(st.pages[p])) THEN FillLoop(st, p + 1, 1, d)
    ELSE FillLoop(FillAnnot(st, p, a, d), p, a + 1, d)

NoIdx == [x \in {} |-> 0]

(* Lines 139-183.  The result keeps the loop's record; NeedAppearances is  *)
(* set only when the loop ran to its end and the document has an AcroForm. *)
fill_pdf_fields(doc, d) ==
    LET st == FillLoop([pages |-> doc.pages, nc |-> NoIdx, raised |-> FALSE, idx |-> NoIdx],
                       1, 1, d)
    IN  [doc    |-> [doc EXCEPT !.pages = st.pages,
                                !.NeedAppearances =
                                    IF ~st.raised /\ doc.AcroForm THEN TRUE ELSE @],
         raised |-> st.raised,
         idx    |-> st.idx]

(***************************************************************************)
(* flatten_to_visible.  Lengths drawn on the canvas are in twentieths of a *)
(* point; a line width is in hundredths.  A drawing operation remembers    *)
(* the annotation (index a on its page) it was drawn for.                  *)
(***************************************************************************)
Tw(n) == 20 * n

Inset == 2

FontMin == 8

FontMax == 12

DrawString(a, x, y, text, size) ==
    [op |-> "string", a |-> a, x1 |-> x, y1 |-> y, x2 |-> 0, y2 |-> 0,
     text |-> text, size |-> size]

Line(a, x1, y1, x2, y2, lw) ==
    [op |-> "line", a |-> a, x1 |-> x1, y1 |-> y1, x2 |-> x2, y2 |-> y2,
     text |-> "", size |-> lw]

(* max(8, min(12, h * 0.6)) *)
FontSize(h) == Max(Tw(FontMin), Min(Tw(FontMax), 12 * h))

(* line_h = max(8, min(12, h * 0.45)) *)
LineHeight(h) == Max(Tw(FontMin), Min(Tw(FontMax), 9 * h))

(* y1 + (h - font_size) * 0.5 + 1 *)
CenteredY(y1, h, size) == Tw(y1) + ((Tw(h) - size) \div 2) + Tw(1)

(* The check for a missing value left out: str(None) is drawn *)
DrawTextOfNone(annot, a) ==
    << DrawString(a, Tw(annot.Rect[1] + Inset),
                  CenteredY(annot.Rect[2], annot.Rect[4] - annot.Rect[2],
                            FontSize(annot.Rect[4] - annot.Rect[2])),
                  IF annot.V.k = "none" THEN "None" ELSE annot.V.s,
                  FontSize(annot.Rect[4] - annot.Rect[2])) >>

(* Lines 209-218 *)
DrawText(annot, a) ==
    LET x1 == annot.Rect[1]
        y1 == annot.Rect[2]
        h  == annot.Rect[4] - annot.Rect[2]
    IN  IF annot.V.k = "none" THEN <<>>
        ELSE << DrawString(a, Tw(x1 + Inset), CenteredY(y1, h, FontSize(h)),
                           annot.V.s, FontSize(h)) >>

(* Lines 221-226: the two strokes of the X *)
DrawCheckbox(annot, a) ==
    LET x1 == annot.Rect[1]
        y1 == annot.Rect[2]
        x2 == annot.Rect[3]
        y2 == annot.Rect[4]
        h  == y2 - y1
        asn == IF annot.AS = "" THEN "/Off" ELSE annot.AS
        lw == Max(100, 12 * h)
    IN  IF asn # "/Off"
        THEN << Line(a, Tw(x1 + Inset), Tw(y1 + Inset), Tw(x2 - Inset), Tw(y2 - Inset), lw),
                Line(a, Tw(x1 + Inset), Tw(y2 - Inset), Tw(x2 - Inset), Tw(y1 + Inset), lw) >>
        ELSE <<>>

(* Lines 233-238: the stored export(s) as display strings *)
ChoiceValues(annot) ==
    IF annot.V.k = "arr"
    THEN [i \in DOMAIN annot.V.a |-> _choice_export_to_display(annot, annot.V.a[i])]
    ELSE << _choice_export_to_display(annot, annot.V.s) >>

(* Every value drawn, the lower edge never looked at *)
RECURSIVE DrawAllLines(_, _, _, _, _, _)
DrawAllLines(a, values, x, y, floor, line_h) ==
    IF values = <<>> THEN <<>>
    ELSE << DrawString(a, x, y, values[1], line_h) >>
         \o DrawAllLines(a, Tail(values), x, y - (line_h + Tw(Inset)), floor, line_h)

(* Lines 251-255: one line per value until y falls below y1 + 2 *)
RECURSIVE DrawLines(_, _, _, _, _, _)
DrawLines(a, values, x, y, floor, line_h) ==
    IF values = <<>> \/ y < floor THEN <<>>
    ELSE << DrawString(a, x, y, values[1], line_h) >>
         \o DrawLines(a, Tail(values), x, y - (line_h + Tw(Inset)), floor, line_h)

(* Lines 229-255 *)
DrawChoice(annot, a) ==
    LET x1 == annot.Rect[1]
        y1 == annot.Rect[2]
        y2 == annot.Rect[4]
        h  == y2 - y1
        values == ChoiceValues(annot)
        line_h == LineHeight(h)
    IN  IF annot.V.k = "none" THEN <<>>
        ELSE IF Len(values) <= 1
        THEN << DrawString(a, Tw(x1 + Inset), CenteredY(y1, h, FontSize(h)),
                           IF values # <<>> THEN values[1] ELSE "", FontSize(h)) >>
        ELSE DrawLines(a, values, Tw(x1 + Inset), Tw(y2) - line_h - Tw(Inset),
                       Tw(y1 + Inset), line_h)

(* Line 220: the widgets that enter the checkbox branch of the flattener *)
FlattenTakesCheckbox(field) == _is_checkbox(field) /\ ~_is_radio(field)

(* Lines 199-255 for one annotation *)
DrawAnnot(annot, a) ==
    IF ~_is_widget(annot) THEN <<>>
    ELSE IF _is_text(annot) THEN DrawText(annot, a)
    ELSE IF FlattenTakesCheckbox(annot) THEN DrawCheckbox(annot, a)
    ELSE IF _is_choice(annot) THEN DrawChoice(annot, a)
    ELSE <<>>

RECURSIVE DrawAnnots(_, _)
DrawAnnots(annots, a) ==
    IF a > Len(annots) THEN <<>>
    ELSE DrawAnnot(annots[a], a) \o DrawAnnots(annots, a + 1)

(* Lines 192-257: the overlay page the canvas emits for one source page *)
OverlayPage(page) ==
    [width |-> page.width, height |-> page.height, draws |-> DrawAnnots(AnnotsOf(page), 1)]

(* page.merge_page(overlay_page): the overlay's content follows the page's own *)
MergePage(page, ov) == [page EXCEPT !.content = @ \o ov.draws]

(* Only the widgets taken out of the list, other annotations kept *)
DelWidgetsOnly(page) ==
    LET rest == SelectSeq(page.Annots, LAMBDA x : ~_is_widget(x))
    IN  [page EXCEPT !.hasAnnots = rest # <<>>, !.Annots = rest]

(* The list left on the page *)
DelNothing(page) == page

(* Lines 264-265 *)
DelAnnots(page) == [page EXCEPT !.hasAnnots = FALSE, !.Annots = <<>>]

(* Lines 185-266.  w is the writer's page list on entry. *)
flatten_to_visible(doc, w) ==
    LET ovl    == [i \in DOMAIN doc.pages |-> OverlayPage(doc.pages[i])]
        merged == [i \in DOMAIN doc.pages |-> DelAnnots(MergePage(doc.pages[i], ovl[i]))]
    IN  [doc |-> [doc EXCEPT !.pages = merged], overlay |-> ovl, writer |-> w \o merged]

(***************************************************************************)
(* PDFFormGUI: _load_fields builds one control per widget, save_pdf turns  *)
(* the controls' values into the mapping and calls fill_and_flatten.       *)
(***************************************************************************)
Control(kind, name, idx, p, a, opts) ==
    [kind |-> kind, name |-> name, idx |-> idx, p |-> p, a |-> a, opts |-> opts]

(* str(name) if name else "(unnamed)" *)
GuiName(field) == IF field.T # "" THEN field.T ELSE "(unnamed)"

(* Line 89: the widgets for which the GUI builds a checkbox control *)
GuiTakesCheckbox(field) == _is_checkbox(field)

(* One iteration of the loop of _load_fields (lines 71-141); g = [ws, nc] *)
LoadAnnot(g, annot, p, a) ==
    LET name_str == GuiName(annot)
    IN  IF ~_is_widget(annot) THEN g
        ELSE IF _is_text(annot)
        THEN [g EXCEPT !.ws = Append(@, Control("text", name_str, 0, p, a, <<>>))]
        ELSE IF GuiTakesCheckbox(annot)
        THEN LET idx == CountGet(g.nc, name_str) + 1
             IN  [ws |-> Append(g.ws, Control("checkbox", name_str, idx, p, a, <<>>)),
                  nc |-> CountPut(g.nc, name_str, idx)]
        ELSE IF _is_choice(annot)
        THEN LET opts == _choice_options(annot)
             IN  IF opts = <<>>
                 THEN [g EXCEPT !.ws = Append(@, Control("text", name_str, 0, p, a, <<>>))]
                 ELSE IF _choice_is_multiselect(annot)
                 THEN [g EXCEPT !.ws = Append(@, Control("choice-multi", name_str, 0, p, a, opts))]
                 ELSE [g EXCEPT !.ws = Append(@, Control("choice", name_str, 0, p, a, opts))]
        ELSE g

RECURSIVE LoadLoop(_, _, _, _)
LoadLoop(g, pages, p, a) ==
    IF p > Len(pages) THEN g
    ELSE IF a > Len(AnnotsOf(pages[p])) THEN LoadLoop(g, pages, p + 1, 1)
    ELSE LoadLoop(LoadAnnot(g, pages[p].Annots[a], p, a), pages, p, a + 1)

(* Lines 60-141: self.widgets after the traversal *)
_load_fields(doc) == LoadLoop([ws |-> <<>>, nc |-> NoIdx], doc.pages, 1, 1).ws

(* What the user can leave in a control: the state of a check button, the  *)
(* text of an entry or combo box, the selected rows of a list box.         *)
UserInput(b, s, sel) == [b |-> b, s |-> s, sel |-> sel]

TextInputs == {"", "hi"}

InputsFor(c) ==
    CASE c.kind = "text"     -> {UserInput(FALSE, s, {}) : s \in TextInputs}
      [] c.kind = "checkbox" -> {UserInput(b, "", {}) : b \in BOOLEAN}
      [] c.kind = "choice"   -> {UserInput(FALSE, c.opts[i][2], {}) : i \in DOMAIN c.opts}
      [] OTHER               -> {UserInput(FALSE, "", sel) : sel \in SUBSET (DOMAIN c.opts)}

RECURSIVE InputVectors(_)
InputVectors(ws) ==
    IF ws = <<>> THEN {<<>>}
    ELSE {<<x>> \o rest : x \in InputsFor(ws[1]), rest \in InputVectors(Tail(ws))}

(* [lb.get(i) for i in lb.curselection()]: the selected labels in row order *)
RECURSIVE Selected(_, _, _)
Selected(opts, sel, i) ==
    IF i > Len(opts) THEN <<>>
    ELSE (IF i \in sel THEN <<opts[i][2]>> ELSE <<>>) \o Selected(opts, sel, i + 1)

DataPut(d, key, v) == [k \in DOMAIN d \cup {key} |-> IF k = key THEN v ELSE d[k]]

(* Lines 156-168 for one control *)
CollectControl(d, c, in) ==
    CASE c.kind = "text"     -> DataPut(d, c.name, PyS(in.s))
      [] c.kind = "checkbox" -> DataPut(d, IndexKey(c.name, c.idx), PyB(in.b))
      [] c.kind = "choice"   -> DataPut(d, c.name, PyS(DictGet(c.opts, in.s, in.s)))
      [] OTHER ->
           LET sels == Selected(c.opts, in.sel, 1)
           IN  DataPut(d, c.name,
                       PyL([i \in DOMAIN sels |-> Item(DictGet(c.opts, sels[i], sels[i]))]))

NoData == [x \in {} |-> PyS("")]

RECURSIVE CollectData(_, _, _)
CollectData(d, ws, ins) ==
    IF ws = <<>> THEN d
    ELSE CollectData(CollectControl(d, ws[1], ins[1]), Tail(ws), Tail(ins))

(***************************************************************************)
(* The documents and mappings the operations are run on.                   *)
(***************************************************************************)
MaxAnnots == 2

MaxFlatten == 2

Annot(subtype, ft, ff, t, rect, apn, as, v, opt) ==
    [Subtype |-> subtype, FT |-> ft, Ff |-> ff, T |-> t, Rect |-> rect,
     APN |-> apn, AS |-> as, V |-> v, Opt |-> opt]

Flag(bit) == Pow2(bit)

BoxRect == <<10, 10, 22, 22>>

ButtonAnnots ==
    { Annot("/Widget", "/Btn", 0, "A", BoxRect, <<"/Yes", "/Off">>, "", NoV, <<>>),
      Annot("/Widget", "/Btn", 0, "A", <<30, 10, 31, 11>>, <<"/Off", "/On">>, "/Off", NoV, <<>>),
      Annot("/Widget", "/Btn", Flag(RadioBit), "A", BoxRect, <<"/Yes", "/Off">>, "/Yes", NoV, <<>>),
      Annot("/Widget", "/Btn", 0, "B", <<40, 10, 44, 14>>, <<>>, "/Yes", NoV, <<>>),
      Annot("/Widget", "/Btn", 0, "", BoxRect, <<"/Yes", "/Off">>, "", NoV, <<>>) }

OtherAnnots ==
    { Annot("/Link", "", 0, "", BoxRect, <<>>, "", NoV, <<>>),
      Annot("/Widget", "/Btn", Flag(PushbuttonBit), "A", BoxRect, <<>>, "", NoV, <<>>),
      Annot("/Widget", "/Btn", 0, "A", BoxRect, <<"/Yes", "/Off">>, "", NoV, <<>>) }

TextAnnots ==
    { Annot("/Widget", "/Tx", 0, "A", <<10, 50, 110, 70>>, <<>>, "", NoV, <<>>),
      Annot("/Widget", "/Tx", 0, "A", <<10, 80, 110, 90>>, <<>>, "", StrV("old"), <<>>),
      Annot("/Widget", "/Tx", 0, "N", <<10, 50, 110, 70>>, <<>>, "", StrV("keep"), <<>>) }

PlainOpts == << <<"e1", "L1">>, <<"e2", "L2">>, <<"e3", "L3">> >>

ClashOpts == << <<"e1", "e2">>, <<"e2", "L2">>, <<"e3", "L2">> >>

ChoiceAnnots ==
    { Annot("/Widget", "/Ch", Flag(MultiSelectBit), "A", <<10, 100, 110, 130>>, <<>>, "", NoV, PlainOpts),
      Annot("/Widget", "/Ch", 0, "A", <<10, 140, 110, 190>>, <<>>, "", StrV("e1"), ClashOpts),
      Annot("/Widget", "/Ch", 0, "A", <<10, 200, 110, 220>>, <<>>, "", NoV, <<>>),
      Annot("/Widget", "/Ch", Flag(MultiSelectBit), "B", <<10, 230, 110, 240>>, <<>>, "",
            ArrV(<<"e1", "zz">>), PlainOpts) }

SeqsUpTo(S, n) == UNION {[1..k -> S] : k \in 0..n}

AnnotLists ==
    SeqsUpTo(ButtonAnnots, MaxAnnots) \cup SeqsUpTo(OtherAnnots, MaxAnnots)
    \cup SeqsUpTo(TextAnnots, MaxAnnots) \cup SeqsUpTo(ChoiceAnnots, MaxAnnots)

(* Letter for the odd pages, A4 for the even ones *)
Page(i, annots) ==
    [id |-> i, width |-> IF i % 2 = 1 THEN 612 ELSE 595,
     height |-> IF i % 2 = 1 THEN 792 ELSE 842,
     hasAnnots |-> annots # <<>>, Annots |-> annots, content |-> <<>>]

Doc(pages) ==
    [pages |-> pages,
     AcroForm |-> \E i \in DOMAIN pages : \E a \in DOMAIN pages[i].Annots :
                      _is_widget(pages[i].Annots[a]),
     NeedAppearances |-> FALSE]

(* Every annotation list on one page, and split over two pages at each place *)
Docs ==
    {Doc(<<Page(1, s)>>) : s \in AnnotLists}
    \cup {Doc(<<Page(1, SubSeq(s, 1, k)), Page(2, SubSeq(s, k + 1, Len(s)))>>) :
            <<s, k>> \in {<<s, k>> \in AnnotLists \X (0..MaxAnnots) : k <= Len(s)}}

NestedList == Unhashable("['x']")

ValuesOfA ==
    { PyB(TRUE), PyB(FALSE), PyS("e2"), PyS("L1"), PyS("L2"), PyS("zz"), PyI(5),
      PyL(<<Item("Yes")>>), PyL(<<Item("/On")>>), PyL(<<Item("L1"), Item("e2"), Item("zz")>>),
      PyL(<<>>),
      PyL(<<NestedList>>), PyL(<<NestedList, Item("Yes")>>) }

Bools == {PyB(TRUE), PyB(FALSE)}

One(k, v) == k :> v

DataSet ==
    {NoData}
    \cup {One("A", v) : v \in ValuesOfA}
    \cup {One("A__1", v) : v \in Bools \cup {PyS(""), PyS("x")}}
    \cup {One("A__2", v) : v \in Bools}
    \cup {One("B", v) : v \in {PyB(TRUE), PyL(<<Item("Yes")>>)}}
    \cup {One("Z", PyS("x"))}
    \cup {One("A__1", v) @@ One("A", w) :
            v \in Bools, w \in {PyB(FALSE), PyL(<<Item("Yes")>>), PyS("zz")}}
    \cup {One("A__1", v) @@ One("A__2", w) : v \in Bools, w \in Bools}
    \cup {One("A", PyB(TRUE)) @@ One("B", PyB(FALSE))}
    \cup {One("A", PyS("L1")) @@ One("Z", PyS("x"))}

(***************************************************************************)
(* Resources and the output file.  A resource is held from the statement   *)
(* that creates it until a close() call or the exit of the with block that *)
(* opened it.  open(path, "wb") creates or truncates the file before       *)
(* anything is written to it.                                              *)
(***************************************************************************)
Merger == "merger"

OutputFile == "output_file"

OverlayBuffer == "packet"

NoFile == [state |-> "absent", pages |-> <<>>]

(* How opening and writing the output file may go *)
WriteOutcomes == {"ok", "open_fails", "write_fails"}

(* with open(path, "wb") as f: w.write(f) *)
WriteOut(h, io, pages, dk) ==
    IF io = "open_fails"
    THEN [held |-> h, raised |-> TRUE, disk |-> dk]
    ELSE LET entered == h \cup {OutputFile}
             exited  == entered \ {OutputFile}
         IN  IF io = "write_fails"
             THEN [held |-> exited, raised |-> TRUE,
                   disk |-> [state |-> "truncated", pages |-> <<>>]]
             ELSE [held |-> exited, raised |-> FALSE,
                   disk |-> [state |-> "complete", pages |-> pages]]

(* packet = BytesIO(): created by flatten_to_visible and never closed *)
FlattenHolds(h) == h \cup {OverlayBuffer}

PageIds(pages) == [i \in DOMAIN pages |-> pages[i].id]

(* An input of the merger: a path that cannot be opened, or a document *)
Unreadable == [ok |-> FALSE, pages |-> <<>>]

Readable(ids) == [ok |-> TRUE, pages |-> ids]

(* for pdf in pdf_list: merger.append(pdf) *)
RECURSIVE AppendLoop(_, _)
AppendLoop(pdfs, acc) ==
    IF pdfs = <<>> THEN [raised |-> FALSE, pages |-> acc]
    ELSE IF ~pdfs[1].ok THEN [raised |-> TRUE, pages |-> acc]
    ELSE AppendLoop(Tail(pdfs), acc \o pdfs[1].pages)

merge_pdfs(pdfs, io, h, dk) ==
    LET created  == h \cup {Merger}
        appended == AppendLoop(pdfs, <<>>)
        written  == WriteOut(created, io, appended.pages, dk)
    IN  IF appended.raised
        THEN [held |-> created, raised |-> TRUE, disk |-> dk]
        ELSE IF written.raised
        THEN [held |-> written.held, raised |-> TRUE, disk |-> written.disk]
        ELSE [held |-> written.held \ {Merger}, raised |-> FALSE, disk |-> written.disk]

MaxInputs == 2

MergeInputs == {Unreadable, Readable(<<"a1">>), Readable(<<"b1", "b2">>)}

PdfLists == SeqsUpTo(MergeInputs, MaxInputs)

(***************************************************************************)
(* The state machine.  file is the input PDF on disk; reader the document  *)
(* model built from it; data the mapping last submitted; fillIdx the       *)
(* occurrence index fill_pdf_fields gave each widget it counted; filled    *)
(* the document model as fill_pdf_fields left it, before any flattening;   *)
(* widgets the GUI's self.widgets; overlay and writer the flattener's      *)
(* products; nflat the number of flattening passes made.  phase is "open"  *)
(* until fill_pdf_fields has run, then "filled", or "raised" when it was   *)
(* left by an exception.  pdf_list is the list last given to merge_pdfs;   *)
(* disk the output file; held the resources acquired and not released;     *)
(* outcome how the last call of merge_pdfs or fill_and_flatten ended.      *)
(***************************************************************************)
Init ==
    /\ file \in Docs
    /\ reader = file
    /\ data = NoData
    /\ phase = "open"
    /\ fillIdx = NoIdx
    /\ filled = file
    /\ widgets = <<>>
    /\ loaded = FALSE
    /\ overlay = <<>>
    /\ writer = <<>>
    /\ nflat = 0
    /\ pdf_list = <<>>
    /\ disk = NoFile
    /\ held = {}
    /\ outcome = "none"

(* fill_pdf_fields(reader, d) *)
Fill ==
    /\ phase = "open"
    /\ nflat = 0
    /\ ~loaded
    /\ \E d \in DataSet :
         LET r == fill_pdf_fields(reader, d)
         IN  /\ reader' = r.doc
             /\ filled' = r.doc
             /\ data' = d
             /\ fillIdx' = r.idx
             /\ phase' = IF r.raised THEN "raised" ELSE "filled"
    /\ UNCHANGED <<file, widgets, loaded, overlay, writer, nflat>>
    /\ UNCHANGED <<pdf_list, disk, held, outcome>>

(* flatten_to_visible(reader, PdfWriter()) *)
Flatten ==
    /\ phase \in {"open", "filled"}
    /\ ~loaded
    /\ nflat < MaxFlatten
    /\ LET r == flatten_to_visible(reader, <<>>)
       IN  /\ reader' = r.doc
           /\ overlay' = r.overlay
           /\ writer' = r.writer
    /\ nflat' = nflat + 1
    /\ held' = FlattenHolds(held)
    /\ UNCHANGED <<file, data, phase, fillIdx, filled, widgets, loaded>>
    /\ UNCHANGED <<pdf_list, disk, outcome>>

(* PDFFormGUI.open_pdf -> _load_fields *)
LoadFields ==
    /\ phase = "open"
    /\ nflat = 0
    /\ ~loaded
    /\ widgets' = _load_fields(file)
    /\ loaded' = TRUE
    /\ UNCHANGED <<file, reader, data, phase, fillIdx, filled, overlay, writer, nflat>>
    /\ UNCHANGED <<pdf_list, disk, held, outcome>>

(* PDFFormGUI.save_pdf -> fill_and_flatten(input_path, out_path, data) *)
SavePdf ==
    /\ phase = "open"
    /\ loaded
    /\ \E ins \in InputVectors(widgets) :
         LET d == CollectData(NoData, widgets, ins)
             r == fill_pdf_fields(file, d)
             f == flatten_to_visible(r.doc, <<>>)
         IN  /\ data' = d
             /\ fillIdx' = r.idx
             /\ filled' = r.doc
             /\ IF r.raised
                THEN /\ reader' = r.doc
                     /\ phase' = "raised"
                     /\ outcome' = "raised"
                     /\ UNCHANGED <<overlay, writer, nflat, held, disk>>
                ELSE /\ reader' = f.doc
                     /\ overlay' = f.overlay
                     /\ writer' = f.writer
                     /\ phase' = "filled"
                     /\ nflat' = nflat + 1
                     /\ \E io \in WriteOutcomes :
                          LET w == WriteOut(FlattenHolds(held), io, PageIds(writer'), disk)
                          IN  /\ held' = w.held
                              /\ disk' = w.disk
                              /\ outcome' = IF w.raised THEN "raised" ELSE "returned"
    /\ UNCHANGED <<file, widgets, loaded, pdf_list>>

(* simple_pdf_filler.py run as a script: fill_and_flatten(argv[1], argv[2], DATA) *)
FillAndFlatten ==
    /\ phase = "open"
    /\ nflat = 0
    /\ ~loaded
    /\ outcome = "none"
    /\ \E d \in DataSet :
         LET r == fill_pdf_fields(file, d)
             f == flatten_to_visible(r.doc, <<>>)
         IN  /\ data' = d
             /\ fillIdx' = r.idx
             /\ filled' = r.doc
             /\ IF r.raised
                THEN /\ reader' = r.doc
                     /\ phase' = "raised"
                     /\ outcome' = "raised"
                     /\ UNCHANGED <<overlay, writer, nflat, held, disk>>
                ELSE /\ reader' = f.doc
                     /\ overlay' = f.overlay
                     /\ writer' = f.writer
                     /\ phase' = "filled"
                     /\ nflat' = nflat + 1
                     /\ \E io \in WriteOutcomes :
                          LET w == WriteOut(FlattenHolds(held), io, PageIds(writer'), disk)
                          IN  /\ held' = w.held
                              /\ disk' = w.disk
                              /\ outcome' = IF w.raised THEN "raised" ELSE "returned"
    /\ UNCHANGED <<file, widgets, loaded, pdf_list>>

(* merge_pdf.py run as a script: merge_pdfs(input_pdfs, output_pdf) *)
MergePdfs ==
    /\ outcome = "none"
    /\ \E l \in PdfLists, io \in WriteOutcomes :
         LET c == merge_pdfs(l, io, held, disk)
         IN  /\ pdf_list' = l
             /\ held' = c.held
             /\ disk' = c.disk
             /\ outcome' = IF c.raised THEN "raised" ELSE "returned"
    /\ UNCHANGED <<file, reader, data, phase, fillIdx, filled, widgets, loaded,
                   overlay, writer, nflat>>

Next == Fill \/ Flatten \/ LoadFields \/ SavePdf

Spec == Init /\ [][Next]_vars

(* The two scripts, and flatten_to_visible called on its own *)
IoNext == MergePdfs \/ FillAndFlatten \/ Flatten

IoSpec == Init /\ [][IoNext]_vars

(***************************************************************************)
(* Vocabulary of the properties                                            *)
(***************************************************************************)
(* The places <<page, annotation>> of a document's annotations *)
Places(doc) ==
    UNION {{<<p, a>> : a \in DOMAIN doc.pages[p].Annots} : p \in DOMAIN doc.pages}

At(doc, pa) == doc.pages[pa[1]].Annots[pa[2]]

(* pa comes before qa in page order, then annotation order *)
Before(pa, qa) == pa[1] < qa[1] \/ (pa[1] = qa[1] /\ pa[2] < qa[2])

(* fill_pdf_fields has returned normally (the document may have been flattened since) *)
FillDone == phase = "filled"

(* flatten_to_visible has run at least once *)
Flattened == nflat >= 1

(* What the flattener drew for annotation a of page p, in drawing order *)
DrawnFor(pa) == SelectSeq(reader.pages[pa[1]].content, LAMBDA o : o.a = pa[2])

(* The appearance state a decided checkbox ends in *)
StateFor(annot, checked) == IF checked THEN _checkbox_on_name(annot) ELSE "/Off"

(* The on-state name, with or without its leading "/", is among the items *)
OnNameListed(annot, v) ==
    \E i \in DOMAIN v.items :
        \/ v.items[i].s = _checkbox_on_name(annot)
        \/ "/" \o v.items[i].s = _checkbox_on_name(annot)

(* 1 + the number of earlier widgets of the same name in fill's checkbox branch *)
Occurrence(doc, pa) ==
    1 + Cardinality({qa \in Places(doc) :
                        /\ Before(qa, pa)
                        /\ _is_widget(At(doc, qa))
                        /\ FillTakesCheckbox(At(doc, qa))
                        /\ At(doc, qa).T = At(doc, pa).T})

(***************************************************************************)
(* C3: for each named checkbox widget that fill_pdf_fields indexes, with   *)
(* name n and occurrence index i, the state after a fill that returned is  *)
(* decided by strict priority: key n__i (its boolean), else key n holding  *)
(* a collection (checked iff the on-state name, with or without "/", is in *)
(* it), else key n holding a boolean; otherwise the state is as it was.    *)
(***************************************************************************)
C3_CheckboxPriority ==
    FillDone =>
        \A pa \in Places(file) :
            LET old == At(file, pa)
                new == At(filled, pa)
                n   == old.T
                i   == Occurrence(file, pa)
                key == IndexKey(n, i)
            IN  (_is_widget(old) /\ FillTakesCheckbox(old) /\ n # "") =>
                    /\ pa \in DOMAIN fillIdx /\ fillIdx[pa] = i
                    /\ IF key \in DOMAIN data
                       THEN new.AS = StateFor(old, PyBool(data[key]))
                       ELSE IF n \in DOMAIN data /\ IsCollection(data[n])
                       THEN new.AS = StateFor(old, OnNameListed(old, data[n]))
                       ELSE IF n \in DOMAIN data /\ IsBool(data[n])
                       THEN new.AS = StateFor(old, data[n].b)
                       ELSE new.AS = old.AS

(* The indexed key and the plain key disagree and the indexed key wins, on *)
(* the second widget of the name.                                          *)
C3_Witness ==
    /\ FillDone
    /\ "A__1" \in DOMAIN data /\ "A" \in DOMAIN data
    /\ data["A__1"] = PyB(TRUE) /\ data["A"] = PyB(FALSE)
    /\ \E pa, qa \in Places(file) :
         /\ Before(pa, qa)
         /\ pa \in DOMAIN fillIdx /\ fillIdx[pa] = 1 /\ At(file, pa).T = "A"
         /\ qa \in DOMAIN fillIdx /\ fillIdx[qa] = 2 /\ At(file, qa).T = "A"
         /\ At(filled, pa).AS = _checkbox_on_name(At(file, pa))
         /\ At(filled, qa).AS = "/Off"

Exports(opts) == {opts[i][1] : i \in DOMAIN opts}

Labels(opts) == {opts[i][2] : i \in DOMAIN opts}

(* Option i is the last one carrying its label, up to options of the same export *)
LastOfLabel(opts, i) ==
    \A j \in DOMAIN opts : (j > i /\ opts[j][2] = opts[i][2]) => opts[j][1] = opts[i][1]

(* s is how the export e shows: the label of the first option with export e *)
ShownAs(opts, e, s) ==
    IF e \in Exports(opts)
    THEN \E i \in DOMAIN opts :
            /\ opts[i][1] = e /\ opts[i][2] = s
            /\ \A j \in 1..(i - 1) : opts[j][1] # e
    ELSE s = e

(* The choice widgets of the file whose name is a key holding a scalar *)
ScalarChoice(pa) ==
    /\ _is_widget(At(file, pa)) /\ _is_choice(At(file, pa))
    /\ At(file, pa).T # "" /\ At(file, pa).T \in DOMAIN data
    /\ ~IsCollection(data[At(file, pa).T])

(***************************************************************************)
(* C2: a scalar value x submitted for a choice field is stored as x when x *)
(* is an export code of the field; as the paired export when x is the      *)
(* label of an option, is no export code, and every later option with that *)
(* label has the same export; and unchanged when it is neither.  The       *)
(* flattener then draws the label of the first option with the stored      *)
(* export (the stored string itself when there is none), so an export and  *)
(* a label that store the same export are drawn the same.                  *)
(***************************************************************************)
C2_ChoiceResolution ==
    FillDone =>
        \A pa \in Places(file) :
            ScalarChoice(pa) =>
                LET opts == At(file, pa).Opt
                    x    == PyStr(data[At(file, pa).T])
                    v    == At(filled, pa).V
                IN  /\ v.k = "str"
                    /\ x \in Exports(opts) => v.s = x
                    /\ \A i \in DOMAIN opts :
                          (x = opts[i][2] /\ x \notin Exports(opts) /\ LastOfLabel(opts, i))
                              => v.s = opts[i][1]
                    /\ (x \notin Exports(opts) /\ x \notin Labels(opts)) => v.s = x
                    /\ Flattened =>
                          /\ Len(DrawnFor(pa)) = 1
                          /\ DrawnFor(pa)[1].op = "string"
                          /\ ShownAs(opts, v.s, DrawnFor(pa)[1].text)

(* A label that is no export was submitted, its export stored, the label drawn *)
C2_Witness ==
    /\ FillDone /\ Flattened
    /\ \E pa \in Places(file) :
         /\ ScalarChoice(pa)
         /\ data[At(file, pa).T] = PyS("L1")
         /\ At(file, pa).Opt = PlainOpts
         /\ At(filled, pa).V = StrV("e1")
         /\ Len(DrawnFor(pa)) = 1 /\ DrawnFor(pa)[1].text = "L1"

(* C2 as stated: the label of every option resolves to that option's export *)
C2_EveryLabelResolves ==
    FillDone =>
        \A pa \in Places(file) :
            ScalarChoice(pa) =>
                \A i \in DOMAIN At(file, pa).Opt :
                    PyStr(data[At(file, pa).T]) = At(file, pa).Opt[i][2]
                        => At(filled, pa).V = StrV(At(file, pa).Opt[i][1])

IsTextWidget(annot) == _is_widget(annot) /\ _is_text(annot)

(***************************************************************************)
(* C5: after a fill that returned and a flattening, every text widget      *)
(* whose field name is a key of the mapping has exactly one string drawn   *)
(* for it on its page, the string form of the submitted value, at the left *)
(* edge of its rectangle plus 2; a text widget whose field has no value    *)
(* has nothing drawn for it.                                               *)
(***************************************************************************)
C5_TextDrawnOnce ==
    Flattened =>
        \A pa \in Places(file) :
            IsTextWidget(At(file, pa)) =>
                /\ (FillDone /\ At(file, pa).T # "" /\ At(file, pa).T \in DOMAIN data) =>
                      /\ Len(DrawnFor(pa)) = 1
                      /\ DrawnFor(pa)[1].op = "string"
                      /\ DrawnFor(pa)[1].text = PyStr(data[At(file, pa).T])
                      /\ DrawnFor(pa)[1].x1 = 20 * (At(file, pa).Rect[1] + 2)
                /\ At(filled, pa).V = NoV => DrawnFor(pa) = <<>>

(* A boolean was submitted for a text field and its string form is on the page *)
C5_Witness ==
    /\ FillDone /\ Flattened
    /\ \E pa \in Places(file) :
         /\ IsTextWidget(At(file, pa))
         /\ At(file, pa).T \in DOMAIN data
         /\ data[At(file, pa).T] = PyB(TRUE)
         /\ Len(DrawnFor(pa)) = 1
         /\ DrawnFor(pa)[1].text = "True"
         /\ DrawnFor(pa)[1].x1 = 240

Inside(rect, x, y) ==
    /\ 20 * rect[1] <= x /\ x <= 20 * rect[3]
    /\ 20 * rect[2] <= y /\ y <= 20 * rect[4]

(***************************************************************************)
(* C6: after a flattening, every checkbox widget whose appearance state is *)
(* an on-state has the two strokes of an X drawn for it, all four          *)
(* endpoints inside its rectangle; an unchecked one ("/Off" or no state)   *)
(* has nothing drawn for it.                                               *)
(***************************************************************************)
C6_MarkInsideRect ==
    Flattened =>
        \A pa \in Places(file) :
            LET w == At(filled, pa)
                d == DrawnFor(pa)
            IN  (_is_widget(w) /\ FillTakesCheckbox(w)) =>
                    IF w.AS \notin {"", "/Off"}
                    THEN /\ Len(d) = 2
                         /\ \A i \in 1..2 :
                               /\ d[i].op = "line"
                               /\ Inside(w.Rect, d[i].x1, d[i].y1)
                               /\ Inside(w.Rect, d[i].x2, d[i].y2)
                    ELSE d = <<>>

(***************************************************************************)
(* C8: after a flattening of a document of N pages the writer holds N      *)
(* pages in the original order, each the source page with the overlay page *)
(* of the same index and size merged into it, and none has an annotation   *)
(* list left.                                                              *)
(***************************************************************************)
C8_PagesMergedAndStripped ==
    Flattened =>
        /\ Len(writer) = Len(file.pages)
        /\ Len(overlay) = Len(file.pages)
        /\ reader.pages = writer
        /\ \A i \in DOMAIN file.pages :
              /\ writer[i].id = file.pages[i].id
              /\ writer[i].width = file.pages[i].width
              /\ writer[i].height = file.pages[i].height
              /\ overlay[i].width = file.pages[i].width
              /\ overlay[i].height = file.pages[i].height
              /\ ~writer[i].hasAnnots
              /\ writer[i].Annots = <<>>
              /\ Len(writer[i].content) >= Len(overlay[i].draws)
              /\ SubSeq(writer[i].content,
                        Len(writer[i].content) - Len(overlay[i].draws) + 1,
                        Len(writer[i].content)) = overlay[i].draws
              /\ nflat = 1 => writer[i].content = filled.pages[i].content \o overlay[i].draws

(* Two pages, one with a link annotation, and something drawn *)
C8_Witness ==
    /\ nflat = 1
    /\ Len(writer) = 2
    /\ \E pa \in Places(file) : ~_is_widget(At(file, pa))
    /\ \E i \in DOMAIN overlay : overlay[i].draws # <<>>
    /\ \A i \in DOMAIN writer : ~writer[i].hasAnnots

ClampedLine(h) == IF 9 * h < 160 THEN 160 ELSE IF 9 * h > 240 THEN 240 ELSE 9 * h

(* The baseline of line j (from 0), in twentieths *)
Baseline(rect, j) ==
    20 * rect[4] - ClampedLine(rect[4] - rect[2]) - 40
        - j * (ClampedLine(rect[4] - rect[2]) + 40)

(* How many of k lines lie at or above the bottom edge + 2 *)
LinesThatFit(rect, k) ==
    Cardinality({j \in 0..(k - 1) : Baseline(rect, j) >= 20 * rect[2] + 40})

IsMultiValued(annot) ==
    _is_widget(annot) /\ _is_choice(annot) /\ annot.V.k = "arr" /\ Len(annot.V.a) >= 2

(***************************************************************************)
(* C9: a choice field storing k >= 2 values in a box of height h has a     *)
(* prefix of them drawn in stored order, one per line, the first at the    *)
(* top edge less the line height clamp(0.45 h, 8, 12) less 2, each next    *)
(* one line height + 2 lower, ending before the first line that would lie  *)
(* below the bottom edge + 2.                                              *)
(***************************************************************************)
C9_MultiSelectPrefix ==
    Flattened =>
        \A pa \in Places(file) :
            LET w == At(filled, pa)
                d == DrawnFor(pa)
            IN  IsMultiValued(w) =>
                    /\ Len(d) = LinesThatFit(w.Rect, Len(w.V.a))
                    /\ \A j \in DOMAIN d :
                          /\ d[j].op = "string"
                          /\ ShownAs(w.Opt, w.V.a[j], d[j].text)
                          /\ d[j].x1 = 20 * (w.Rect[1] + 2)
                          /\ d[j].y1 = Baseline(w.Rect, j - 1)
                          /\ d[j].size = ClampedLine(w.Rect[4] - w.Rect[2])

(* Three values stored, the box takes two lines, two lines drawn *)
C9_Witness ==
    /\ FillDone /\ Flattened
    /\ \E pa \in Places(file) :
         /\ IsMultiValued(At(filled, pa))
         /\ Len(At(filled, pa).V.a) = 3
         /\ LinesThatFit(At(filled, pa).Rect, 3) = 2
         /\ Len(DrawnFor(pa)) = 2
         /\ DrawnFor(pa)[1].text = "L1" /\ DrawnFor(pa)[2].text = "L2"

(***************************************************************************)
(* C10: a flattening pass over a document already flattened draws nothing  *)
(* and leaves every page's content, and the pages' number and order, as    *)
(* they were.                                                              *)
(***************************************************************************)
C10_SecondPassNoOp ==
    [][(nflat >= 1 /\ nflat' = nflat + 1) =>
          /\ \A i \in DOMAIN overlay' : overlay'[i].draws = <<>>
          /\ Len(reader'.pages) = Len(reader.pages)
          /\ \A i \in DOMAIN reader.pages :
                /\ reader'.pages[i].content = reader.pages[i].content
                /\ reader'.pages[i].id = reader.pages[i].id
          /\ writer' = writer]_vars

(* A second pass was made over pages the first pass had drawn on *)
C10_Witness ==
    /\ nflat = 2
    /\ \E i \in DOMAIN reader.pages : reader.pages[i].content # <<>>
    /\ \A i \in DOMAIN overlay : overlay[i].draws = <<>>

(***************************************************************************)
(* C1: every widget for which _load_fields builds a checkbox control gets  *)
(* there the occurrence index that fill_pdf_fields computes for it, so the *)
(* boolean save_pdf submits under name__N sets the state of the Nth widget *)
(* of that name.                                                           *)
(***************************************************************************)
C1_SameOccurrenceIndex ==
    (loaded /\ FillDone) =>
        \A i \in DOMAIN widgets :
            LET c  == widgets[i]
                pa == <<c.p, c.a>>
            IN  c.kind = "checkbox" =>
                    /\ pa \in DOMAIN fillIdx
                    /\ fillIdx[pa] = c.idx
                    /\ IndexKey(c.name, c.idx) \in DOMAIN data
                    /\ At(file, pa).T # "" =>
                          At(filled, pa).AS =
                              StateFor(At(file, pa), PyBool(data[IndexKey(c.name, c.idx)]))

IsRadioWidget(annot) == _is_widget(annot) /\ _is_checkbox(annot) /\ _is_radio(annot)

(***************************************************************************)
(* C4: a button widget with the radio flag set (push-button flag clear) is *)
(* handled like one with the flag clear: fill_pdf_fields counts it and     *)
(* sets its state from the mapping, and the flattener draws its X when its *)
(* state is not "/Off".                                                    *)
(***************************************************************************)
C4_RadioLikeCheckbox ==
    \A pa \in Places(file) :
        IsRadioWidget(At(file, pa)) =>
            /\ FillDone =>
                  /\ pa \in DOMAIN fillIdx
                  /\ (DOMAIN data = {At(file, pa).T} /\ IsBool(data[At(file, pa).T]))
                        => At(filled, pa).AS = StateFor(At(file, pa), data[At(file, pa).T].b)
            /\ (Flattened /\ At(filled, pa).AS \notin {"", "/Off"}) =>
                  /\ Len(DrawnFor(pa)) = 2
                  /\ \A i \in 1..2 : DrawnFor(pa)[i].op = "line"

NoKeyFormApplies(doc, pa) ==
    LET n == At(doc, pa).T
    IN  \/ n = ""
        \/ ~FillTakesCheckbox(At(doc, pa))
        \/ /\ IndexKey(n, Occurrence(doc, pa)) \notin DOMAIN data
           /\ n \in DOMAIN data => (~IsCollection(data[n]) /\ ~IsBool(data[n]))

(***************************************************************************)
(* C7: fill_pdf_fields returns for every mapping, and it leaves as they    *)
(* were the value of every text and choice field whose name is no key and  *)
(* the state of every checkbox widget to which no key form applies.        *)
(***************************************************************************)
C7_FillNeverFails ==
    /\ phase # "raised"
    /\ (FillDone /\ nflat = 0) =>
          \A pa \in Places(file) :
              LET old == At(file, pa)
                  new == At(reader, pa)
              IN  /\ ~_is_widget(old) => new = old
                  /\ (_is_widget(old) /\ (_is_text(old) \/ _is_choice(old))
                      /\ (old.T = "" \/ old.T \notin DOMAIN data)) => new = old
                  /\ (_is_widget(old) /\ old.FT = "/Btn" /\ NoKeyFormApplies(file, pa))
                        => new = old

(***************************************************************************)
(* C11: once merge_pdfs or fill_and_flatten has returned or raised, or     *)
(* flatten_to_visible has returned, nothing the function acquired is still *)
(* held: not the merger's PdfWriter, not the output file handle, not the   *)
(* overlay buffer, whether or not appending an input, opening the output   *)
(* or writing it failed.                                                   *)
(***************************************************************************)
C11_ResourcesReleased ==
    (outcome # "none" \/ Flattened) => held = {}

====
